---- MODULE Spec2Model ----
(***************************************************************************)
(* HybridRecommender (Recommender-snippet.ipynb): construction, the hybrid *)
(* scoring of recommend_items, and save_model / load_model.                *)
(*                                                                         *)
(* Numbers.  Scores are scaled integers.  alpha is a numerator over        *)
(* AlphaDen, a similarity is a numerator over SimScale, a rating estimate  *)
(* is an integer on the rating scale.  hybrid_score is kept in units of    *)
(* 1/(AlphaDen*SimScale), so that                                          *)
(*    alpha*cf + (1-alpha)*cb   is   alpha*cf*SimScale + (AlphaDen-alpha)*cb*)
(* and a plain cf_score is   cf*AlphaDen*SimScale.                         *)
(*                                                                         *)
(* Libraries.  A description is the set of its tokens; TfidfVectorizer     *)
(* drops the stop words and fails on an empty vocabulary; the rows of the  *)
(* tf-idf matrix are the remaining token sets (uniform weights), and an    *)
(* entry of linear_kernel is the squared cosine of two rows rounded down   *)
(* to a multiple of 1/SimScale (0 for an empty row, SimScale for equal     *)
(* non-empty rows, monotone in the cosine).  SVD is a baseline predictor   *)
(* (global mean + user bias + item bias of the train split, clipped to the *)
(* rating scale); the random train/test split is the choice of the held    *)
(* out rows.  DataFrame.sort_values uses an unstable sort: the order of    *)
(* equal keys is fixed per build, and is the variable tie_order.           *)
(***************************************************************************)
EXTENDS Integers, Sequences, FiniteSets, TLC

VARIABLES files, tie_order, inst, disk, last

vars == <<files, tie_order, inst, disk, last>>

----
(* Bounds *)
MaxCatalog == 2
MaxN == 2
AlphaDen == 2
SimScale == 2

(* Rating scale of the Reader *)
RatingMin == 1
RatingMax == 5

ItemIds == {1, 2}
UnknownItem == 1 + 2
UserArgs == {1, 1 + 2}
StopWords == {"the"}

Min(a, b) == IF a < b THEN a ELSE b
Max(a, b) == IF a < b THEN b ELSE a

----
(* pandas cells of the description column *)
NaN == [na |-> TRUE, text |-> {}]
Text(t) == [na |-> FALSE, text |-> t]

(* DataFrame rows as records; a CSV file on disk *)
Row(i, d) == [item_id |-> i, description |-> d]
Rating(u, i, r) == [user_id |-> u, item_id |-> i, rating |-> r]

NoFrame == <<>>
AttrNames == {"alpha", "logger", "interactions", "item_data", "cf_model",
              "tfidf", "tfidf_matrix", "cosine_sim"}

NoModel == [mean |-> 0, bu |-> <<>>, bi |-> <<>>]

(* object.__new__: an instance without any attribute *)
new == [has |-> {}, alpha |-> 0, interactions |-> NoFrame, item_data |-> NoFrame,
        cf_model |-> NoModel, tfidf |-> {}, tfidf_matrix |-> <<>>,
        cosine_sim |-> <<>>]

setattr(obj, name, val) ==
    [[obj EXCEPT ![name] = val] EXCEPT !.has = @ \cup {name}]

(* the logger has no state the program reads: only its presence is kept *)
setlogger(obj) == [obj EXCEPT !.has = @ \cup {"logger"}]

hasattr(obj, name) == name \in obj.has

----
(* Sequence helpers standing for list / DataFrame primitives *)
Range(s) == {s[k] : k \in 1..Len(s)}

RECURSIVE Sum(_)
Sum(s) == IF s = <<>> THEN 0 ELSE Head(s) + Sum(Tail(s))

RECURSIVE Concat(_)
Concat(ss) == IF ss = <<>> THEN <<>> ELSE Head(ss) \o Concat(Tail(ss))

(* the subsequence of s at the increasing positions idxs *)
Take(s, idxs) ==
    LET RECURSIVE Go(_)
        Go(k) == IF k > Len(s) THEN <<>>
                 ELSE (IF k \in idxs THEN <<s[k]>> ELSE <<>>) \o Go(k + 1)
    IN Go(1)

(* list[start:stop] of Python for start >= 0, with a negative stop counted
   from the end; positions are 0-based as in Python *)
Slice(s, start, stop) ==
    LET L == Len(s)
        lo == Min(start, L)
        hi == IF stop < 0 THEN Max(L + stop, 0) ELSE Min(stop, L)
    IN IF lo >= hi THEN <<>> ELSE SubSeq(s, lo + 1, hi)

(* s ordered by descending keys[k]; equal keys keep their order when
   keep_order, and are reversed otherwise *)
SortDesc(s, keys, keep_order) ==
    LET D == 1..Len(s)
        Before(j, i) == \/ keys[j] > keys[i]
                        \/ /\ keys[j] = keys[i]
                           /\ IF keep_order THEN j < i ELSE j > i
        Rank(i) == Cardinality({j \in D : Before(j, i)}) + 1
    IN [r \in D |-> s[CHOOSE i \in D : Rank(i) = r]]

(* Series.unique: the values in order of first appearance *)
unique(s) ==
    Take(s, {k \in 1..Len(s) : \A j \in 1..(k - 1) : s[j] # s[k]})

(* DataFrame.head(n): the first n rows, or all but the last -n rows *)
head(df, n) == Slice(df, 0, n)

(* Series.fillna('') on the description column *)
fillna(cell) == IF cell.na THEN Text({}) ELSE cell

----
(* scikit-learn *)

(* TfidfVectorizer(stop_words='english'): the analysed documents *)
analyze(descriptions) ==
    [k \in 1..Len(descriptions) |-> descriptions[k].text \ StopWords]

vocabulary(docs) == UNION Range(docs)

(* linear_kernel(X, X) of the L2-normalised rows: the squared cosine of
   rows a and b as a numerator over SimScale *)
kernel(a, b) ==
    IF a = {} \/ b = {} THEN 0
    ELSE (SimScale * Cardinality(a \cap b) * Cardinality(a \cap b))
             \div (Cardinality(a) * Cardinality(b))

linear_kernel(X, Y) ==
    [i \in 1..Len(X) |-> [j \in 1..Len(Y) |-> kernel(X[i], Y[j])]]

----
(* surprise *)

(* train_test_split(data, test_size=0.25): the number of held out ratings *)
TestSize(n) == (n + 3) \div 4

Splits(n) == {t \in SUBSET (1..n) : Cardinality(t) = TestSize(n)}

Mean(rs) == IF rs = <<>> THEN 0 ELSE Sum(rs) \div Len(rs)

(* SVD().fit(trainset): global mean and the biases of the raw ids seen *)
fit(trainset) ==
    LET users == {trainset[k].user_id : k \in 1..Len(trainset)}
        items == {trainset[k].item_id : k \in 1..Len(trainset)}
        all == [k \in 1..Len(trainset) |-> trainset[k].rating]
        of_user(u) == Take(all, {k \in 1..Len(trainset) : trainset[k].user_id = u})
        of_item(i) == Take(all, {k \in 1..Len(trainset) : trainset[k].item_id = i})
        mean == Mean(all)
    IN [mean |-> mean,
        bu |-> [u \in users |-> Mean(of_user(u)) - mean],
        bi |-> [i \in items |-> Mean(of_item(i)) - mean]]

(* cf_model.predict(uid, iid).est: unknown ids contribute no bias, the
   estimate is clipped to the rating scale, no error is raised *)
predict(model, uid, iid) ==
    LET bu == IF uid \in DOMAIN model.bu THEN model.bu[uid] ELSE 0
        bi == IF iid \in DOMAIN model.bi THEN model.bi[iid] ELSE 0
    IN Min(RatingMax, Max(RatingMin, model.mean + bu + bi))

----
(* HybridRecommender.__init__ and its helpers.  Each helper maps the object
   under construction to [obj, error]; error "" is a normal return. *)
Ok(obj) == [obj |-> obj, error |-> ""]
Raise(obj, e) == [obj |-> obj, error |-> e]

_setup_logging(self) == Ok(setlogger(self))

_load_data(self, fs) ==
    IF ~fs.interactions.exists THEN Raise(self, "FileNotFoundError")
    ELSE IF ~fs.metadata.exists THEN Raise(self, "FileNotFoundError")
    ELSE
      LET s1 == setattr(self, "interactions", fs.interactions.rows)
          s2 == setattr(s1, "item_data", fs.metadata.rows)
      IN IF ~({"user_id", "item_id", "rating"} \subseteq fs.interactions.columns)
           THEN Raise(s2, "ValueError")
         ELSE IF ~({"item_id", "description"} \subseteq fs.metadata.columns)
           THEN Raise(s2, "ValueError")
         ELSE Ok(setattr(s2, "item_data",
                 [k \in 1..Len(s2.item_data) |->
                     [s2.item_data[k] EXCEPT !.description = fillna(@)]]))

_init_collaborative_filtering(self, held_out) ==
    LET n == Len(self.interactions)
        trainset == Take(self.interactions, (1..n) \ held_out)
    IN Ok(setattr(self, "cf_model", fit(trainset)))

_init_content_based_filtering(self) ==
    LET docs == analyze([k \in 1..Len(self.item_data) |->
                             self.item_data[k].description])
        s1 == setattr(self, "tfidf", vocabulary(docs))
    IN IF vocabulary(docs) = {} THEN Raise(s1, "ValueError")
       ELSE Ok(setattr(s1, "tfidf_matrix", docs))

_calculate_similarity_matrix(self) ==
    Ok(setattr(self, "cosine_sim",
               linear_kernel(self.tfidf_matrix, self.tfidf_matrix)))

(* a bound of the alpha check made strict *)
AlphaValid_strict(alpha) == 0 < alpha /\ alpha <= AlphaDen

AlphaValid(alpha) == 0 <= alpha /\ alpha <= AlphaDen

(* [obj, error, steps]: the object as the constructor leaves it, the error
   it raises ("" for none) and the helpers it entered, in order *)
__init__(fs, alpha, held_out) ==
    IF ~AlphaValid(alpha)
      THEN [obj |-> new, error |-> "ValueError", steps |-> <<>>]
    ELSE
      LET s0 == setattr(new, "alpha", alpha)
          r1 == _setup_logging(s0)
          r2 == _load_data(r1.obj, fs)
          r3 == _init_collaborative_filtering(r2.obj, held_out)
          r4 == _init_content_based_filtering(r3.obj)
          r5 == _calculate_similarity_matrix(r4.obj)
      IN IF r2.error # ""
           THEN [obj |-> r2.obj, error |-> r2.error,
                 steps |-> <<"_setup_logging", "_load_data">>]
         ELSE IF r4.error # ""
           THEN [obj |-> r4.obj, error |-> r4.error,
                 steps |-> <<"_setup_logging", "_load_data",
                             "_init_collaborative_filtering",
                             "_init_content_based_filtering">>]
         ELSE [obj |-> r5.obj, error |-> "",
               steps |-> <<"_setup_logging", "_load_data",
                           "_init_collaborative_filtering",
                           "_init_content_based_filtering",
                           "_calculate_similarity_matrix">>]

----
(* HybridRecommender.recommend_items *)

(* the distinct values of S in ascending order *)
Ascending(S) ==
    [r \in 1..Cardinality(S) |->
        CHOOSE x \in S : Cardinality({y \in S : y < x}) = r - 1]

(* lines 106-111: one collaborative estimate per distinct catalog id *)
cf_recs(self, user_id) ==
    LET all_items == unique([k \in 1..Len(self.item_data) |->
                                self.item_data[k].item_id])
    IN [k \in 1..Len(all_items) |->
          [item_id |-> all_items[k],
           cf_score |-> predict(self.cf_model, user_id, all_items[k])]]

(* an unknown seed falling back to the first catalog row *)
seed_index_or_first(self, item_id) ==
    LET I == {k \in 1..Len(self.item_data) : self.item_data[k].item_id \in item_id}
    IN IF I = {} /\ self.item_data # <<>> THEN {1} ELSE I

(* line 114: the catalog positions holding the seed id *)
seed_index(self, item_id) ==
    {k \in 1..Len(self.item_data) : self.item_data[k].item_id \in item_id}

(* lines 115-117: the similarity row of position idx, sorted by descending
   score with sorted() (stable), first entry dropped, n entries kept *)
sim_scores(self, idx, n) ==
    LET row == self.cosine_sim[idx]
        enumerated == [k \in 1..Len(row) |-> [index |-> k, score |-> row[k]]]
        sorted == SortDesc(enumerated, row, TRUE)
    IN Slice(sorted, 1, n + 1)

(* lines 118-120: iloc keeps the catalog position of each row as its label *)
cb_recs(self, idx, n) ==
    LET sims == sim_scores(self, idx, n)
    IN [k \in 1..Len(sims) |->
          [index |-> sims[k].index,
           item_id |-> self.item_data[sims[k].index].item_id,
           cb_score |-> sims[k].score]]

(* Series.fillna(0) on a score cell: {} is a missing value *)
fillna0(cell) == IF cell = {} THEN 0 ELSE CHOOSE x \in cell : TRUE

(* the two weights exchanged *)
hybrid_swapped(alpha, cf_score, cb_cell) ==
    (AlphaDen - alpha) * cf_score * SimScale + alpha * fillna0(cb_cell)

(* line 126-127 *)
hybrid(alpha, cf_score, cb_cell) ==
    alpha * cf_score * SimScale + (AlphaDen - alpha) * fillna0(cb_cell)

(* line 125: pd.merge(cf, cb, on='item_id', how='outer'): keys in ascending
   order, one row per matching pair, a missing side left empty *)
merge_outer(cf, cb) ==
    LET keys == Ascending({cf[k].item_id : k \in 1..Len(cf)}
                          \cup {cb[k].item_id : k \in 1..Len(cb)})
        left(key) == Take(cf, {k \in 1..Len(cf) : cf[k].item_id = key})
        right(key) == Take(cb, {k \in 1..Len(cb) : cb[k].item_id = key})
        pairs(key) ==
            LET l == left(key)
                r == right(key)
            IN IF r = <<>>
                 THEN [a \in 1..Len(l) |->
                         [item_id |-> key, cf_score |-> {l[a].cf_score},
                          cb_score |-> {}]]
               ELSE IF l = <<>>
                 THEN [b \in 1..Len(r) |->
                         [item_id |-> key, cf_score |-> {},
                          cb_score |-> {r[b].cb_score}]]
               ELSE Concat([a \in 1..Len(l) |->
                       [b \in 1..Len(r) |->
                          [item_id |-> key, cf_score |-> {l[a].cf_score},
                           cb_score |-> {r[b].cb_score}]]])
    IN Concat([k \in 1..Len(keys) |-> pairs(keys[k])])

(* lines 124-130: the scored frame before ranking *)
combine(alpha, cf, cb) ==
    IF cb # <<>>
      THEN LET m == merge_outer(cf, cb)
           IN [k \in 1..Len(m) |->
                 [item_id |-> m[k].item_id,
                  cf_score |-> m[k].cf_score,
                  cb_score |-> m[k].cb_score,
                  hybrid_score |-> hybrid(alpha, fillna0(m[k].cf_score),
                                          m[k].cb_score)]]
    ELSE [k \in 1..Len(cf) |->
            [item_id |-> cf[k].item_id,
             cf_score |-> {cf[k].cf_score},
             cb_score |-> {},
             hybrid_score |-> cf[k].cf_score * AlphaDen * SimScale]]

(* line 131: sort_values('hybrid_score', ascending=False).head(n) *)
top_n(recs, keep_order, n) ==
    head(SortDesc(recs, [k \in 1..Len(recs) |-> recs[k].hybrid_score],
                  keep_order), n)

(* line 132: recommendations.merge(self.item_data, on='item_id'), an inner
   join in the order of the left rows *)
merge_inner(recs, item_data) ==
    Concat([k \in 1..Len(recs) |->
        LET right == Take(item_data, {j \in 1..Len(item_data) :
                                         item_data[j].item_id = recs[k].item_id})
        IN [j \in 1..Len(right) |->
              [item_id |-> recs[k].item_id,
               cf_score |-> recs[k].cf_score,
               cb_score |-> recs[k].cb_score,
               hybrid_score |-> recs[k].hybrid_score,
               description |-> right[j].description]]])

(* the joined frame kept on the instance as its catalog *)
Result_kept(self, e, rows, cb) ==
    [self |-> IF e = "" /\ rows # <<>>
                THEN [self EXCEPT !.item_data =
                        [k \in 1..Len(rows) |->
                            Row(rows[k].item_id, rows[k].description)]]
              ELSE self,
     error |-> e, rows |-> rows, cb |-> cb]

Result(self, e, rows, cb) == [self |-> self, error |-> e, rows |-> rows, cb |-> cb]

(* item_id is {} for None and {i} for the seed i.  The result holds the
   instance as the call leaves it, the error raised ("" for none), the
   returned rows and the content scores computed on the way (cb). *)
recommend_items(self, keep_order, user_id, item_id, n) ==
    IF ~hasattr(self, "item_data") THEN Result(self, "AttributeError", <<>>, <<>>)
    ELSE IF self.item_data # <<>> /\ ~hasattr(self, "cf_model")
      THEN Result(self, "AttributeError", <<>>, <<>>)
    ELSE IF item_id # {} /\ seed_index(self, item_id) = {}
      THEN Result(self, "IndexError", <<>>, <<>>)
    ELSE IF item_id # {} /\ ~hasattr(self, "cosine_sim")
      THEN Result(self, "AttributeError", <<>>, <<>>)
    ELSE
      LET cf == cf_recs(self, user_id)
          cb == IF item_id # {}
                  THEN LET I == seed_index(self, item_id)
                           idx == CHOOSE k \in I : \A j \in I : k <= j
                       IN cb_recs(self, idx, n)
                ELSE <<>>
      IN IF cb # <<>> /\ ~hasattr(self, "alpha")
           THEN Result(self, "AttributeError", <<>>, cb)
         ELSE Result(self, "",
                     merge_inner(top_n(combine(self.alpha, cf, cb), keep_order, n),
                                 self.item_data),
                     cb)

----
(* save_model / load_model *)
SavedKeys == {"alpha", "tfidf", "cf_model", "cosine_sim", "item_data"}

NoFile == [exists |-> FALSE, has |-> {}, alpha |-> 0, tfidf |-> {},
           cf_model |-> NoModel, cosine_sim |-> <<>>, item_data |-> NoFrame]

(* lines 136-143: the dict handed to joblib.dump *)
model_data(self) ==
    [exists |-> TRUE, has |-> SavedKeys, alpha |-> self.alpha,
     tfidf |-> self.tfidf, cf_model |-> self.cf_model,
     cosine_sim |-> self.cosine_sim, item_data |-> self.item_data]

(* [file, error]: the file at path after the call and the error raised *)
save_model(self, file) ==
    IF ~(SavedKeys \subseteq self.has)
      THEN [file |-> file, error |-> "AttributeError"]
    ELSE IF ~hasattr(self, "logger")
      THEN [file |-> model_data(self), error |-> "AttributeError"]
    ELSE [file |-> model_data(self), error |-> ""]

(* the similarity matrix not restored *)
load_model_without_sim(file) ==
    IF ~file.exists THEN Raise(new, "FileNotFoundError")
    ELSE
      LET s1 == setattr(new, "alpha", file.alpha)
          s2 == setattr(s1, "tfidf", file.tfidf)
          s3 == setattr(s2, "cf_model", file.cf_model)
          s5 == setattr(s3, "item_data", file.item_data)
      IN Ok(s5)

(* lines 149-156: cls.__new__(cls) and the five assignments *)
load_model(file) ==
    IF ~file.exists THEN Raise(new, "FileNotFoundError")
    ELSE
      LET s1 == setattr(new, "alpha", file.alpha)
          s2 == setattr(s1, "tfidf", file.tfidf)
          s3 == setattr(s2, "cf_model", file.cf_model)
          s4 == setattr(s3, "cosine_sim", file.cosine_sim)
          s5 == setattr(s4, "item_data", file.item_data)
      IN Ok(s5)

----
(* The state machine.  files: the two CSV files given to the constructor;
   tie_order: TRUE when the build's sort_values keeps equal keys in order;
   inst: the instance the caller holds (origin "none" before the first one),
   with the object as it was when created (fresh); disk: the file at the
   model path and the instance whose save_model wrote it (saved_by);
   last: the last call, its arguments and its outcome. *)

NoCall == [op |-> "none", error |-> "", user_id |-> 0, item_id |-> {}, n |-> 0,
           rows |-> <<>>, cb |-> <<>>, alpha |-> 0, steps |-> <<>>, obj |-> new]

NoInstance == [origin |-> "none", obj |-> new, fresh |-> new]

Columns(missing) == {"user_id", "item_id", "rating", "description"} \ missing

Ratings == <<Rating(1, 1, 5), Rating(1, 2, 2), Rating(2, 1, 3)>>

InteractionFiles ==
    {[exists |-> TRUE, columns |-> Columns({}), rows |-> Ratings],
     [exists |-> TRUE, columns |-> Columns({"rating"}), rows |-> Ratings],
     [exists |-> FALSE, columns |-> {}, rows |-> <<>>]}

Space == Text({"space"})
SpaceDrama == Text({"space", "drama"})
TheSpace == Text({"the", "space"})

Descriptions == {NaN, Space, SpaceDrama}

Catalogs ==
    UNION {[1..k -> {Row(i, d) : i \in ItemIds, d \in Descriptions}]
              : k \in 1..MaxCatalog}

SmallCatalogs ==
    {<<Row(1, TheSpace), Row(2, SpaceDrama), Row(2, NaN)>>,
     <<Row(2, NaN), Row(1, Space)>>,
     <<Row(1, NaN)>>}

MetadataFile(rows) == [exists |-> TRUE, columns |-> Columns({}), rows |-> rows]

MetadataFiles ==
    {MetadataFile(c) : c \in SmallCatalogs}
    \cup {[exists |-> TRUE, columns |-> Columns({"description"}),
           rows |-> <<Row(1, NaN)>>],
          [exists |-> FALSE, columns |-> {}, rows |-> <<>>]}

Alphas == (0 - 1)..(AlphaDen + 1)
SeedArgs == {{}} \cup {{i} : i \in ItemIds \cup {UnknownItem}}
NArgs == (0 - MaxN)..MaxN
CallNArgs == {0, 1, MaxN}

Init ==
    /\ files \in [interactions : InteractionFiles, metadata : MetadataFiles]
    /\ tie_order \in BOOLEAN
    /\ inst = NoInstance
    /\ disk = [file |-> NoFile, saved_by |-> NoInstance]
    /\ last = NoCall

(* r = HybridRecommender(interactions_path, metadata_path, alpha) *)
Construct(alpha, held_out) ==
    LET r == __init__(files, alpha, held_out)
    IN /\ inst' = IF r.error = ""
                    THEN [origin |-> "init", obj |-> r.obj, fresh |-> r.obj]
                  ELSE inst
       /\ last' = [NoCall EXCEPT !.op = "construct", !.error = r.error,
                                 !.alpha = alpha, !.steps = r.steps,
                                 !.obj = r.obj]
       /\ UNCHANGED <<files, tie_order, disk>>

(* r.recommend_items(user_id, item_id, n) *)
Recommend(user_id, item_id, n) ==
    /\ inst.origin # "none"
    /\ LET r == recommend_items(inst.obj, tie_order, user_id, item_id, n)
       IN /\ inst' = [inst EXCEPT !.obj = r.self]
          /\ last' = [NoCall EXCEPT !.op = "recommend", !.error = r.error,
                                    !.user_id = user_id, !.item_id = item_id,
                                    !.n = n, !.rows = r.rows, !.cb = r.cb]
    /\ UNCHANGED <<files, tie_order, disk>>

(* r.save_model(path) *)
Save ==
    /\ inst.origin # "none"
    /\ LET r == save_model(inst.obj, disk.file)
       IN /\ disk' = IF r.file = disk.file /\ r.error # "" THEN disk
                     ELSE [file |-> r.file, saved_by |-> inst]
          /\ last' = [NoCall EXCEPT !.op = "save", !.error = r.error]
    /\ UNCHANGED <<files, tie_order, inst>>

(* r = HybridRecommender.load_model(path) *)
Load ==
    LET r == load_model(disk.file)
    IN /\ inst' = IF r.error = ""
                    THEN [origin |-> "load", obj |-> r.obj, fresh |-> r.obj]
                  ELSE inst
       /\ last' = [NoCall EXCEPT !.op = "load", !.error = r.error, !.obj = r.obj]
       /\ UNCHANGED <<files, tie_order, disk>>

Next ==
    \/ \E alpha \in Alphas, held_out \in Splits(Len(Ratings)) :
          Construct(alpha, held_out)
    \/ \E user_id \in UserArgs, item_id \in SeedArgs, n \in CallNArgs :
          Recommend(user_id, item_id, n)
    \/ Save
    \/ Load

Spec == Init /\ [][Next]_vars

(* The scoring function on its own: every instance the constructor builds
   from a catalog of at most MaxCatalog rows, and the calls on it. *)
InitScore ==
    /\ files \in [interactions : {f \in InteractionFiles :
                                     f.exists /\ "rating" \in f.columns},
                  metadata : {MetadataFile(c) : c \in Catalogs}]
    /\ tie_order \in BOOLEAN
    /\ \E alpha \in Alphas, held_out \in Splits(Len(Ratings)) :
          LET r == __init__(files, alpha, held_out)
          IN /\ r.error = ""
             /\ inst = [origin |-> "init", obj |-> r.obj, fresh |-> r.obj]
    /\ disk = [file |-> NoFile, saved_by |-> NoInstance]
    /\ last = NoCall

(* one call on a freshly built instance *)
Score(user_id, item_id, n) ==
    /\ last.op = "none"
    /\ Recommend(user_id, item_id, n)

NextScore ==
    \E user_id \in UserArgs, item_id \in SeedArgs, n \in NArgs :
        Score(user_id, item_id, n)

SpecScore == InitScore /\ [][NextScore]_vars

----
(* Properties *)

(* what a caller observes of a call: the error or the returned rows *)
Outcome(obj, user_id, item_id, n) ==
    LET r == recommend_items(obj, tie_order, user_id, item_id, n)
    IN <<r.error, r.rows>>

CatalogIds == {inst.obj.item_data[k].item_id : k \in 1..Len(inst.obj.item_data)}

Returned == last.op = "recommend" /\ last.error = ""

SeedInCatalog == last.item_id # {} /\ last.item_id \subseteq CatalogIds

(* the catalog row the seed id resolves to *)
SeedRow ==
    LET I == seed_index(inst.obj, last.item_id)
    IN CHOOSE k \in I : \A j \in I : k <= j

(* C1: every returned row has hybrid_score = alpha*cf_score +
   (1-alpha)*cb_score, a missing cb_score counting as 0, with and without
   content scores. *)
C1_HybridFormula ==
    (Returned /\ last.n > 0) =>
        \A k \in 1..Len(last.rows) :
            last.rows[k].hybrid_score =
                hybrid(inst.obj.alpha, fillna0(last.rows[k].cf_score),
                       last.rows[k].cb_score)

(* C2: the instance load_model returns from the file a constructed instance
   saved gives, for every (user_id, item_id, n), the outcome the saved
   instance gives. *)
C2_RoundTrip ==
    (last.op = "load" /\ last.error = "" /\ disk.saved_by.origin = "init") =>
        \A user_id \in UserArgs, item_id \in SeedArgs, n \in NArgs :
            Outcome(inst.obj, user_id, item_id, n)
                = Outcome(disk.saved_by.obj, user_id, item_id, n)

C2_Witness ==
    /\ last.op = "load" /\ last.error = "" /\ disk.saved_by.origin = "init"
    /\ \E user_id \in UserArgs, item_id \in SeedArgs \ {{}}, n \in NArgs :
          /\ Outcome(inst.obj, user_id, item_id, n)[1] = ""
          /\ Len(Outcome(inst.obj, user_id, item_id, n)[2]) > 1

(* C3: with a seed of the catalog, no content score is given to the seed's
   own catalog row. *)
C3_SeedExcluded ==
    (Returned /\ SeedInCatalog) =>
        \A k \in 1..Len(last.cb) : last.cb[k].index # SeedRow

(* C4: for positive n at most n rows are returned. *)
C4_AtMostN ==
    (Returned /\ last.n > 0) => Len(last.rows) <= last.n

(* C5: a seed absent from the catalog ends the call in an error without
   rows, for every user; no seed or a seed of the catalog never ends in an
   error, whether the user is known to the model or not. *)
C5_SeedNotFound ==
    last.op = "recommend" =>
        /\ (last.item_id # {} /\ ~SeedInCatalog) =>
               (last.error = "IndexError" /\ last.rows = <<>>)
        /\ (last.item_id = {} \/ SeedInCatalog) => last.error = ""

C5_Witness ==
    /\ last.op = "recommend"
    /\ last.user_id \notin DOMAIN inst.obj.cf_model.bu
    /\ last.item_id = {UnknownItem}
    /\ last.error = "IndexError"

(* C6: a constructor call with alpha outside [0,1] raises before any
   attribute is set and before any helper runs; alpha = 0 and alpha = 1
   pass the check and reach the data loading. *)
C6_AlphaCheckedFirst ==
    last.op = "construct" =>
        /\ (last.alpha < 0 \/ last.alpha > AlphaDen) =>
               /\ last.error = "ValueError"
               /\ last.obj.has = {}
               /\ last.steps = <<>>
        /\ last.alpha \in {0, AlphaDen} =>
               /\ "alpha" \in last.obj.has
               /\ "_load_data" \in Range(last.steps)

C6_Witness ==
    /\ last.op = "construct"
    /\ last.alpha > AlphaDen
    /\ last.error = "ValueError"
    /\ files.interactions.exists /\ files.metadata.exists

(* C7 as stated: for alpha = 0, a seed of the catalog and positive n the
   returned item_ids are the items given a content score, in that order. *)
C7_PureContentOrder ==
    (Returned /\ SeedInCatalog /\ last.n > 0 /\ inst.obj.alpha = 0) =>
        [k \in 1..Len(last.rows) |-> last.rows[k].item_id]
            = [k \in 1..Len(last.cb) |-> last.cb[k].item_id]

(* the largest content score given to an item_id, 0 when it has none *)
BestCb(id) ==
    LET S == {last.cb[k].cb_score : k \in {j \in 1..Len(last.cb) :
                                              last.cb[j].item_id = id}}
    IN IF S = {} THEN 0 ELSE CHOOSE x \in S : \A y \in S : y <= x

(* C7 amended: for alpha = 0, a seed of the catalog, positive n and a
   catalog of more than one row (so that some item is given a content
   score), the rows are ranked by content score alone, a missing content
   score counting as 0: hybrid_score is the content score, the rows are in
   non-increasing order of it, a content score shown is one of the top-n
   list, and no item left out has a content score above that of a returned
   row. *)
C7_ContentRanking ==
    (Returned /\ SeedInCatalog /\ last.n > 0 /\ inst.obj.alpha = 0
        /\ Len(inst.obj.item_data) > 1) =>
        /\ \A k \in 1..Len(last.rows) :
              /\ last.rows[k].hybrid_score
                    = AlphaDen * fillna0(last.rows[k].cb_score)
              /\ last.rows[k].cb_score # {} =>
                    \E j \in 1..Len(last.cb) :
                        /\ last.cb[j].item_id = last.rows[k].item_id
                        /\ last.cb[j].cb_score \in last.rows[k].cb_score
        /\ \A k \in 1..(Len(last.rows) - 1) :
              fillna0(last.rows[k].cb_score) >= fillna0(last.rows[k + 1].cb_score)
        /\ \A id \in CatalogIds \ {last.rows[k].item_id : k \in 1..Len(last.rows)} :
              \A k \in 1..Len(last.rows) :
                  BestCb(id) <= fillna0(last.rows[k].cb_score)

C7_Witness ==
    /\ Returned /\ SeedInCatalog /\ last.n > 0 /\ inst.obj.alpha = 0
    /\ \E k \in 1..Len(last.rows) : last.rows[k].cb_score = {}
    /\ \E k \in 1..Len(last.rows) : fillna0(last.rows[k].cb_score) > 0

(* C8: for n <= 0, with no seed or a seed of the catalog, the call returns
   no rows and raises no error. *)
C8_NonPositiveN ==
    (last.op = "recommend" /\ last.n <= 0
        /\ (last.item_id = {} \/ SeedInCatalog)) =>
        (last.error = "" /\ last.rows = <<>>)

(* C9: calls of recommend_items leave the instance as it was created, and
   every call gives the outcome the same call gives on the instance as
   created. *)
C9_ReadOnly ==
    /\ inst.obj = inst.fresh
    /\ last.op = "recommend" =>
          <<last.error, last.rows>>
              = Outcome(inst.fresh, last.user_id, last.item_id, last.n)

C9_Witness ==
    /\ last.op = "recommend"
    /\ last.item_id # {}
    /\ Len(last.rows) > 1

(* C10: recommend_items and save_model never fail on a missing attribute,
   whether the instance was constructed or loaded. *)
C10_NoMissingAttribute ==
    last.op \in {"recommend", "save"} => last.error # "AttributeError"

====
